---- MODULE Spec2Model ----
(***************************************************************************)
(* A model of todo-tui: the sqlite-backed store of database.rs and the     *)
(* interactive loop of main.rs (render, poll, key handler).                *)
(*                                                                         *)
(* Conventions.                                                            *)
(*   Option<T>   None is <<>>, Some(v) is <<v>>.                           *)
(*   String      a sequence of one-character strings.                      *)
(*   NaiveDate   a day number (an integer).                                *)
(*   TEXT column holding a date: a record [fmt, day]; fmt tells which      *)
(*               to_string wrote it ("ymd" for NaiveDate, "ymdhms" for     *)
(*               NaiveDateTime), which is what parse_from_str looks at.    *)
(*   usize index 0-based as in the code; sequences are indexed at i + 1.   *)
(***************************************************************************)
EXTENDS Integers, Sequences, FiniteSets, TLC

VARIABLES
    db,                \* the sqlite file: [lists, todos], rows in rowid order
    lists,             \* run's local `lists` (snapshot of the last fetch)
    todos,             \* run's local `todos` (snapshot of the last fetch)
    mode,              \* state.state : AppState
    list_title,        \* state.list_title
    todo_title,        \* state.todo_title
    todo_description,  \* state.todo_description
    todo_due_date,     \* state.todo_due_date : Option<NaiveDate>
    input,             \* state.input
    lists_sel,         \* state.lists_list_state.selected()
    todo_sel,          \* state.todo_list_state.selected()
    selecting_list,    \* state.selecting_list
    run,               \* "main" (main has not branched yet), "running", "quit"
                       \* (break of the loop), "exit" (main returned without
                       \* the loop) or "panic"
    build,             \* overflow checks of the build: "debug" (on), "release"
                       \* (off), or "any" while no overflow has shown which
    nkeys,             \* number of key presses handled so far
    last,              \* the step just taken: the handler's store call, the faults met
    args,              \* main's Args: [date : Option<NaiveDate>, count : bool]
    stdout             \* the lines main has printed

vars == <<db, lists, todos, mode, list_title, todo_title, todo_description,
          todo_due_date, input, lists_sel, todo_sel, selecting_list, run,
          build, nkeys, last, args, stdout>>

-----------------------------------------------------------------------------
(* Bounds of the model *)

\* key presses of one session
MaxKeys == 8
\* key presses of one session in which store calls may fail
MaxFaultKeys == 5
\* lists in the store at start-up
MaxInitLists == 2
\* todos in the store at start-up
MaxInitTodos == 2
\* length of the sequences the navigation functions are run against
MaxNavLen == 3
\* calls of the navigation functions in one run
MaxNavCalls == 5
\* todos of the list handed to get_todos
MaxSortLen == 4
\* characters typed into the due date field
MaxDueInput == 8
\* key presses while the due date field is edited
MaxDueKeys == 10
\* key presses while one list is looked at
MaxSortKeys == 3
\* todos in the store a one-shot query runs over
MaxOneShotTodos == 2
\* key presses after main has entered the loop
MaxOneShotKeys == 2
\* key presses of one session beside which another process writes
MaxExtKeys == 5
\* todos in the store of a session that edits todos
MaxEditTodos == 2
\* key presses of a session that edits todos
MaxEditKeys == 7

-----------------------------------------------------------------------------
(* Values *)

None == <<>>
Some(v) == <<v>>
IsSome(o) == o # <<>>
Unwrap(o) == o[1]

\* Local::now() as a day number: the day of the session
Today == 0
\* the first day whose year has five digits (10000-01-01), as a day number:
\* about 2.9 million days after the day of the session
FirstSignedDay == 2913000
\* the largest n for which Local::now().checked_add_days(Days::new(n)) is
\* Some: chrono's dates end in year 262142, about 95 million days from now
MaxAddDays == 95000000
Builds == {"debug", "release"}

RECURSIVE SeqMax(_)
SeqMax(s) == IF s = <<>> THEN 0
             ELSE LET m == SeqMax(Tail(s)) IN IF Head(s) > m THEN Head(s) ELSE m

Min(a, b) == IF a <= b THEN a ELSE b

MapSeq(s, F(_)) == [i \in 1..Len(s) |-> F(s[i])]

-----------------------------------------------------------------------------
(* model.rs and the conversions of database.rs *)

\* NaiveDate::to_string, as bound to a TEXT column
DateText(d) == [fmt |-> "ymd", day |-> d]
\* NaiveDateTime::to_string ("2024-01-01 10:00:00.123"), as bound to a TEXT column
DateTimeText(d) == [fmt |-> "ymdhms", day |-> d]
\* NaiveDate::parse_from_str(&s, "%Y-%m-%d").ok(): trailing input is an error
ParseDate(t) == IF t.fmt = "ymd" THEN Some(t.day) ELSE None
\* NaiveDate::to_string and format("%Y-%m-%d") write the years 0..9999 with
\* four digits and later years with a sign: "+10000-01-01"
Signed(d) == d >= FirstSignedDay
\* a <= b on two TEXT values holding dates written by NaiveDate, as SQLite
\* compares them (byte by byte): '+' is less than every digit; texts that
\* both have four or both have five year digits compare as their dates do.
\* (Years of six digits are not drawn.)
TextLeq(a, b) ==
    IF Signed(a.day) # Signed(b.day) THEN Signed(a.day) ELSE a.day <= b.day
\* Option<String> column .and_then(parse)
ParseDateColumn(c) == IF IsSome(c) THEN ParseDate(Unwrap(c)) ELSE None
\* Option<NaiveDate>.map(|d| d.to_string())
DateColumn(o) == IF IsSome(o) THEN Some(DateText(Unwrap(o))) ELSE None

\* struct Todo
Todo(id, list_id, title, description, due_date, completed, completed_date) ==
    [id |-> id, list_id |-> list_id, title |-> title,
     description |-> description, due_date |-> due_date,
     completed |-> completed, completed_date |-> completed_date,
     dependencies |-> <<>>]

\* struct TodoList
TodoList(id, title) == [id |-> id, title |-> title]

\* the closure of query_map in fetch_todos and fetch_incomplete_todos
RowToTodo(r) ==
    Todo(Some(r.id), r.list_id, r.title, r.description,
         ParseDateColumn(r.due_date), r.completed,
         ParseDateColumn(r.completed_date))

\* the closure of query_map in fetch_lists
RowToList(r) == TodoList(Some(r.id), r.title)

\* id INTEGER PRIMARY KEY: an insert without id takes the largest rowid + 1
NextId(rows) == SeqMax(MapSeq(rows, LAMBDA r : r.id)) + 1

-----------------------------------------------------------------------------
(* database.rs.  Every function takes the store and the number f of the     *)
(* statement that fails (0: none; 1: open_db or the first statement; 2: the *)
(* second statement) and gives the store after the call.  Each              *)
(* conn.execute is its own transaction.                                     *)

FilterRows(rows, Keep(_)) == SelectSeq(rows, Keep)

add_todo(d, todo, f) ==
    IF f # 0 THEN d
    ELSE [d EXCEPT !.todos = Append(@,
            [id |-> NextId(@), list_id |-> todo.list_id, title |-> todo.title,
             description |-> todo.description,
             due_date |-> DateColumn(todo.due_date),
             completed |-> todo.completed,
             completed_date |-> DateColumn(todo.completed_date)])]

\* update_todo without its WHERE clause
update_todo_every_row(d, todo, f) ==
    IF f # 0 THEN d
    ELSE [d EXCEPT !.todos = MapSeq(@, LAMBDA r :
            [id |-> r.id, list_id |-> todo.list_id, title |-> todo.title,
             description |-> todo.description,
             due_date |-> DateColumn(todo.due_date),
             completed |-> todo.completed,
             completed_date |-> DateColumn(todo.completed_date)])]

update_todo(d, todo, f) ==
    IF f # 0 THEN d
    ELSE [d EXCEPT !.todos = MapSeq(@, LAMBDA r :
            IF Some(r.id) = todo.id
            THEN [id |-> r.id, list_id |-> todo.list_id, title |-> todo.title,
                  description |-> todo.description,
                  due_date |-> DateColumn(todo.due_date),
                  completed |-> todo.completed,
                  completed_date |-> DateColumn(todo.completed_date)]
            ELSE r)]

\* toggle_todo_completion writing the date whatever completed is
toggle_todo_completion_dated(d, todo_id, completed, f) ==
    IF f # 0 THEN d
    ELSE [d EXCEPT !.todos = MapSeq(@, LAMBDA r :
            IF r.id = todo_id
            THEN [r EXCEPT !.completed = completed,
                           !.completed_date = Some(DateTimeText(Today))]
            ELSE r)]

toggle_todo_completion(d, todo_id, completed, f) ==
    LET completed_date == IF completed THEN Some(DateTimeText(Today)) ELSE None
    IN  IF f # 0 THEN d
        ELSE [d EXCEPT !.todos = MapSeq(@, LAMBDA r :
                IF r.id = todo_id
                THEN [r EXCEPT !.completed = completed,
                               !.completed_date = completed_date]
                ELSE r)]

delete_todo(d, todo_id, f) ==
    IF f # 0 THEN d
    ELSE [d EXCEPT !.todos = FilterRows(@, LAMBDA r : r.id # todo_id)]

\* Ok(rows) as Some(rows), Err as None
fetch_todos(d, list_id, f) ==
    IF f # 0 THEN None
    ELSE Some(MapSeq(FilterRows(d.todos, LAMBDA r : r.list_id = list_id),
                     RowToTodo))

\* WHERE completed = false and due_date <= ?: NULL <= ? is not true
fetch_incomplete_todos(d, date, f) ==
    IF f # 0 THEN None
    ELSE Some(MapSeq(FilterRows(d.todos, LAMBDA r :
                        /\ ~r.completed
                        /\ IsSome(r.due_date)
                        /\ TextLeq(Unwrap(r.due_date), DateText(date))),
                     RowToTodo))

add_list(d, list, f) ==
    IF f # 0 THEN d
    ELSE [d EXCEPT !.lists = Append(@, [id |-> NextId(@), title |-> list.title])]

\* delete_list without its second statement
delete_list_lists_only(d, list_id, f) ==
    IF f = 1 THEN d
    ELSE [d EXCEPT !.lists = FilterRows(@, LAMBDA r : r.id # list_id)]

delete_list(d, list_id, f) ==
    LET d1 == [d EXCEPT !.lists = FilterRows(@, LAMBDA r : r.id # list_id)]
        d2 == [d1 EXCEPT !.todos = FilterRows(@, LAMBDA r : r.list_id # list_id)]
    IN  IF f = 1 THEN d ELSE IF f = 2 THEN d1 ELSE d2

fetch_lists(d, f) ==
    IF f # 0 THEN None ELSE Some(MapSeq(d.lists, RowToList))

-----------------------------------------------------------------------------
(* main.rs: fetching for display *)

\* slice::sort_by_key: a stable sort; Less(a, b) is key(a) < key(b)
sort_by_key(s, Less(_, _)) ==
    LET n == Len(s)
        rank(i) == Cardinality({j \in 1..n :
                        \/ Less(s[j], s[i])
                        \/ (~Less(s[i], s[j]) /\ j < i)})
    IN  [p \in 1..n |-> s[CHOOSE i \in 1..n : rank(i) = p - 1]]

\* Option<NaiveDate> as a key: None < Some(_), Some by date
DueDateLess(a, b) ==
    IF IsSome(b.due_date)
    THEN (~IsSome(a.due_date)) \/ Unwrap(a.due_date) < Unwrap(b.due_date)
    ELSE FALSE
\* !due_date.is_some() as a key: false < true
NoDueDateLess(a, b) == IsSome(a.due_date) /\ ~IsSome(b.due_date)
\* completed as a key: false < true
CompletedLess(a, b) == (~a.completed) /\ b.completed

\* get_todos with the three passes in the opposite order
get_todos_passes_reversed(d, list_id, f) ==
    LET fetched == fetch_todos(d, list_id, f)
    IN  IF IsSome(fetched)
        THEN sort_by_key(sort_by_key(sort_by_key(Unwrap(fetched),
                 CompletedLess), NoDueDateLess), DueDateLess)
        ELSE <<>>

\* get_todos with the pass by completed alone
get_todos_completed_pass_only(d, list_id, f) ==
    LET fetched == fetch_todos(d, list_id, f)
    IN  IF IsSome(fetched)
        THEN sort_by_key(Unwrap(fetched), CompletedLess)
        ELSE <<>>

get_todos(d, list_id, f) ==
    LET fetched == fetch_todos(d, list_id, f)
    IN  IF IsSome(fetched)
        THEN sort_by_key(sort_by_key(sort_by_key(Unwrap(fetched),
                 DueDateLess), NoDueDateLess), CompletedLess)
        ELSE <<>>

get_lists(d, f) ==
    LET fetched == fetch_lists(d, f)
    IN  IF IsSome(fetched) THEN Unwrap(fetched) ELSE <<>>

-----------------------------------------------------------------------------
(* main.rs: AppState and the mutable State of run *)

List(detail) == [tag |-> "List", field |-> None, idx |-> detail]
Create(field, edit_todo_index) ==
    [tag |-> "Create", field |-> field, idx |-> edit_todo_index]
CreateList(field) == [tag |-> "CreateList", field |-> field, idx |-> None]

\* run's locals and State as one value; panic and quit tell how a handler
\* left the loop; overflow is the build an arithmetic overflow showed; op is
\* the store call the handler made and hf its fault, fl and ft are the faults
\* of the frame's fetch_lists and fetch_todos
Cur ==
    [db |-> db, lists |-> lists, todos |-> todos, state |-> mode,
     list_title |-> list_title, todo_title |-> todo_title,
     todo_description |-> todo_description, todo_due_date |-> todo_due_date,
     input |-> input, lists_sel |-> lists_sel, todo_sel |-> todo_sel,
     selecting_list |-> selecting_list,
     panic |-> FALSE, quit |-> FALSE, overflow |-> None,
     op |-> "none", hf |-> 0, fl |-> 0, ft |-> 0]

\* an index expression v[i] that is out of bounds or an expect on None
Panic(s) == [s EXCEPT !.panic = TRUE]

\* usize arithmetic that overflows: a panic with overflow checks, else the
\* wrapped result, which is s with the fields of `wrapped`
Overflow(s, bld, wrapped) ==
    IF bld = "debug" THEN [s EXCEPT !.panic = TRUE, !.overflow = Some(bld)]
    ELSE [wrapped EXCEPT !.overflow = Some(bld)]

InBounds(i, v) == i < Len(v)
At(v, i) == v[i + 1]

-----------------------------------------------------------------------------
(* main.rs: navigation *)

todos_move_up(s) ==
    IF IsSome(s.todo_sel)
    THEN LET v == Unwrap(s.todo_sel)
             max == IF v = 0 THEN None ELSE Some(v - 1)
         IN  [s EXCEPT !.todo_sel = max]
    ELSE [s EXCEPT !.todo_sel = Some(0)]

lists_move_up(s) ==
    IF IsSome(s.lists_sel)
    THEN LET v == Unwrap(s.lists_sel)
             max == IF v = 0 THEN None ELSE Some(v - 1)
         IN  [s EXCEPT !.lists_sel = max]
    ELSE [s EXCEPT !.lists_sel = Some(0)]

\* min(v + 1, len - 1) on usize: len - 1 with len = 0 panics under overflow
\* checks and wraps to usize::MAX without them, and then the min is v + 1
todos_move_down(s, bld) ==
    IF IsSome(s.todo_sel)
    THEN LET v == Unwrap(s.todo_sel)
         IN  IF Len(s.todos) = 0
             THEN Overflow(s, bld, [s EXCEPT !.todo_sel = Some(v + 1)])
             ELSE [s EXCEPT !.todo_sel = Some(Min(v + 1, Len(s.todos) - 1))]
    ELSE [s EXCEPT !.todo_sel = Some(0)]

lists_move_down(s, bld) ==
    IF IsSome(s.lists_sel)
    THEN LET v == Unwrap(s.lists_sel)
         IN  IF Len(s.lists) = 0
             THEN Overflow(s, bld, [s EXCEPT !.lists_sel = Some(v + 1)])
             ELSE [s EXCEPT !.lists_sel = Some(Min(v + 1, Len(s.lists) - 1))]
    ELSE [s EXCEPT !.lists_sel = Some(0)]

-----------------------------------------------------------------------------
(* main.rs: store calls of the core; every error is dropped with .ok() *)

save_todo_list(s, title, f) ==
    [s EXCEPT !.db = add_list(@, TodoList(None, title), f),
              !.op = "add_list", !.hf = f]

\* save_todo storing no description
save_todo_no_description(s, list_id, f) ==
    LET todo == Todo(None, list_id, s.todo_title, None,
                     s.todo_due_date, FALSE, None)
    IN  [s EXCEPT !.db = add_todo(@, todo, f), !.op = "add_todo", !.hf = f]

\* save_todo filing the todo under the position of the lists cursor
save_todo_by_index(s, list_id, f) ==
    LET todo == Todo(None, Unwrap(s.lists_sel), s.todo_title,
                     Some(s.todo_description), s.todo_due_date, FALSE, None)
    IN  [s EXCEPT !.db = add_todo(@, todo, f), !.op = "add_todo", !.hf = f]

save_todo(s, list_id, f) ==
    LET todo == Todo(None, list_id, s.todo_title, Some(s.todo_description),
                     s.todo_due_date, FALSE, None)
    IN  [s EXCEPT !.db = add_todo(@, todo, f), !.op = "add_todo", !.hf = f]

\* toggle_todo unselecting the todo it toggled
toggle_todo_unselects(s, f) ==
    IF IsSome(s.todo_sel)
    THEN LET todo_index == Unwrap(s.todo_sel)
         IN  IF ~InBounds(todo_index, s.todos) THEN Panic(s)
             ELSE [s EXCEPT
                     !.db = toggle_todo_completion(@,
                                Unwrap(At(s.todos, todo_index).id),
                                ~At(s.todos, todo_index).completed, f),
                     !.op = "toggle_todo_completion",
                     !.hf = f,
                     !.todo_sel = None]
    ELSE s

toggle_todo(s, f) ==
    IF IsSome(s.todo_sel)
    THEN LET todo_index == Unwrap(s.todo_sel)
         IN  IF ~InBounds(todo_index, s.todos) THEN Panic(s)
             ELSE [s EXCEPT
                     !.db = toggle_todo_completion(@,
                                Unwrap(At(s.todos, todo_index).id),
                                ~At(s.todos, todo_index).completed, f),
                     !.op = "toggle_todo_completion",
                     !.hf = f]
    ELSE s

-----------------------------------------------------------------------------
(* main.rs: run, the frame *)

\* the match on state.state at the head of the loop: AppState::List fetches
\* again; the draw_* functions read the snapshots and change nothing here
Render(s, fl, ft) ==
    IF s.state.tag = "List"
    THEN LET s1 == [s EXCEPT !.lists = get_lists(s.db, fl), !.fl = fl]
         IN  IF IsSome(s1.lists_sel)
             THEN LET list_index == Unwrap(s1.lists_sel)
                  IN  IF ~InBounds(list_index, s1.lists) THEN Panic(s1)
                      ELSE [s1 EXCEPT
                              !.todos = get_todos(s1.db,
                                  Unwrap(At(s1.lists, list_index).id), ft),
                              !.ft = ft]
             ELSE [s1 EXCEPT !.todos = <<>>]
    ELSE s

-----------------------------------------------------------------------------
(* main.rs: run, the key handlers of AppState::List(detail) *)

ListQ(s) == [s EXCEPT !.quit = TRUE]

\* the v handler taking the cursor again when a detail is shown
ListV_follows_cursor(s) ==
    IF IsSome(s.todo_sel)
    THEN [s EXCEPT !.state = List(Some(Unwrap(s.todo_sel)))]
    ELSE s

ListV(s) ==
    IF IsSome(s.state.idx) THEN [s EXCEPT !.state = List(None)]
    ELSE IF IsSome(s.todo_sel)
         THEN [s EXCEPT !.state = List(Some(Unwrap(s.todo_sel)))]
         ELSE s

ListE(s) ==
    IF IsSome(s.lists_sel) /\ IsSome(s.todo_sel)
    THEN LET edit_todo_index == Unwrap(s.todo_sel)
         IN  IF ~InBounds(edit_todo_index, s.todos) THEN Panic(s)
             ELSE LET todo == At(s.todos, edit_todo_index)
                  IN  [s EXCEPT
                         !.todo_description =
                             IF IsSome(todo.description)
                             THEN Unwrap(todo.description) ELSE <<>>,
                         !.input = todo.title,
                         !.todo_title = todo.title,
                         !.todo_due_date = todo.due_date,
                         !.state = Create(Some("Title"), Some(edit_todo_index))]
    ELSE s

\* the N handler opening the form whether or not a list is selected
ListN_without_list(s) == [s EXCEPT !.state = Create(Some("Title"), None)]

ListN(s) ==
    IF IsSome(s.lists_sel)
    THEN [s EXCEPT !.state = Create(Some("Title"), None)]
    ELSE s

ListL(s) == [s EXCEPT !.state = CreateList(Some("Title"))]

ListD(s, f) ==
    IF s.selecting_list
    THEN IF IsSome(s.lists_sel)
         THEN LET list_index == Unwrap(s.lists_sel)
              IN  IF ~InBounds(list_index, s.lists) THEN Panic(s)
                  ELSE [s EXCEPT
                          !.db = delete_list(@,
                                     Unwrap(At(s.lists, list_index).id), f),
                          !.op = "delete_list",
                          !.hf = f,
                          !.lists_sel = None,
                          !.todo_sel = None]
         ELSE s
    ELSE IF IsSome(s.todo_sel)
         THEN LET todo_index == Unwrap(s.todo_sel)
              IN  IF ~InBounds(todo_index, s.todos) THEN Panic(s)
                  ELSE [s EXCEPT
                          !.db = delete_todo(@,
                                     Unwrap(At(s.todos, todo_index).id), f),
                          !.op = "delete_todo",
                          !.hf = f]
         ELSE s

ListJ(s, bld) ==
    IF s.selecting_list THEN lists_move_down(s, bld)
    ELSE todos_move_down(s, bld)

ListK(s) ==
    IF s.selecting_list THEN lists_move_up(s) ELSE todos_move_up(s)

\* the h handler keeping the detail view
ListH_keeps_detail(s) ==
    IF s.selecting_list THEN s
    ELSE [s EXCEPT !.selecting_list = TRUE, !.todo_sel = None]

\* the h handler keeping the todos cursor
ListH_keeps_cursor(s) ==
    IF s.selecting_list THEN s
    ELSE [s EXCEPT !.selecting_list = TRUE, !.state = List(None)]

ListH(s) ==
    IF s.selecting_list THEN s
    ELSE [s EXCEPT !.selecting_list = TRUE,
                   !.state = List(None),
                   !.todo_sel = None]

\* f: the fault of fetch_todos (focus on lists) or of the toggle (on todos)
ListLowerL(s, f) ==
    IF s.selecting_list
    THEN LET s1 == [s EXCEPT !.selecting_list = FALSE]
             s2 == IF IsSome(s1.lists_sel)
                   THEN LET index == Unwrap(s1.lists_sel)
                        IN  IF ~InBounds(index, s1.lists) THEN Panic(s1)
                            ELSE [s1 EXCEPT
                                    !.todos = get_todos(s1.db,
                                        Unwrap(At(s1.lists, index).id), f),
                                    !.op = "fetch_todos",
                                    !.hf = f]
                   ELSE [s1 EXCEPT !.todos = <<>>]
         IN  IF s2.panic THEN s2
             ELSE IF Len(s2.todos) > 0
                  THEN [s2 EXCEPT !.todo_sel = Some(0)]
                  ELSE s2
    ELSE toggle_todo(s, f)

ListSpace(s, f) ==
    IF s.selecting_list THEN s ELSE toggle_todo(s, f)

-----------------------------------------------------------------------------
(* main.rs: run, the key handlers of AppState::Create(field, edit_todo_index) *)

Digits == {"0", "1", "2", "3", "4", "5", "6", "7", "8", "9"}

DigitValue(c) ==
    CASE c = "0" -> 0 [] c = "1" -> 1 [] c = "2" -> 2 [] c = "3" -> 3
      [] c = "4" -> 4 [] c = "5" -> 5 [] c = "6" -> 6 [] c = "7" -> 7
      [] c = "8" -> 8 [] c = "9" -> 9

RECURSIVE DigitsValue(_)
DigitsValue(str) ==
    IF str = <<>> THEN 0
    ELSE DigitsValue(SubSeq(str, 1, Len(str) - 1)) * 10
         + DigitValue(str[Len(str)])

\* str::parse::<u64>: an optional '+', then one digit or more, nothing else.
\* (A value above u64::MAX is an error too; that takes 20 digits.)
ParseU64(str) ==
    LET body == IF str # <<>> /\ Head(str) = "+" THEN Tail(str) ELSE str
    IN  IF body = <<>> \/ \E i \in 1..Len(body) : body[i] \notin Digits
        THEN None
        ELSE Some(DigitsValue(body))

\* Local::now().checked_add_days(Days::new(v)): None past chrono's last date
CheckedAddDays(v) == IF v > MaxAddDays THEN None ELSE Some(Today + v)

\* String::pop
Pop(str) == IF str = <<>> THEN str ELSE SubSeq(str, 1, Len(str) - 1)

CreateFieldChar(s, c) == [s EXCEPT !.input = Append(@, c)]

CreateFieldBackspace(s) == [s EXCEPT !.input = Pop(@)]

\* the esc handler of a field keeping the buffer
CreateFieldEsc_keeps_input(s) ==
    [s EXCEPT !.state = Create(None, s.state.idx)]

CreateFieldEsc(s) ==
    [s EXCEPT !.input = <<>>, !.state = Create(None, s.state.idx)]

\* enter on Title opening Description with the staged description in
\* the buffer, as 'd' at the menu does
CreateFieldEnter_preloads(s) ==
    LET f == Unwrap(s.state.field)
        edit_todo_index == s.state.idx
    IN  CASE f = "Title" ->
               [s EXCEPT !.todo_title = s.input,
                         !.input = s.todo_description,
                         !.state = Create(Some("Description"), edit_todo_index)]
          [] f = "Description" ->
               [s EXCEPT !.todo_description = s.input,
                         !.input = <<>>,
                         !.state = Create(Some("DueDate"), edit_todo_index)]
          [] f = "DueDate" ->
               LET parsed == ParseU64(s.input)
                   date == IF IsSome(parsed)
                           THEN CheckedAddDays(Unwrap(parsed)) ELSE None
               IN  IF IsSome(parsed) /\ ~IsSome(date)
                   THEN Panic(s)
                   ELSE [s EXCEPT !.todo_due_date = date,
                                  !.input = <<>>,
                                  !.state = Create(None, edit_todo_index)]

CreateFieldEnter(s) ==
    LET f == Unwrap(s.state.field)
        edit_todo_index == s.state.idx
    IN  CASE f = "Title" ->
               [s EXCEPT !.todo_title = s.input,
                         !.input = <<>>,
                         !.state = Create(Some("Description"), edit_todo_index)]
          [] f = "Description" ->
               [s EXCEPT !.todo_description = s.input,
                         !.input = <<>>,
                         !.state = Create(Some("DueDate"), edit_todo_index)]
          [] f = "DueDate" ->
               LET parsed == ParseU64(s.input)
                   date == IF IsSome(parsed)
                           THEN CheckedAddDays(Unwrap(parsed)) ELSE None
               IN  IF IsSome(parsed) /\ ~IsSome(date)
                   THEN Panic(s)  \* .expect("in range")
                   ELSE [s EXCEPT !.todo_due_date = date,
                                  !.input = <<>>,
                                  !.state = Create(None, edit_todo_index)]

\* esc / q at the menu breaking out of the loop
CreateMenuEsc_breaks(s) == [s EXCEPT !.state = List(None), !.quit = TRUE]

\* Esc and 'q' at the menu emptying the staged values as 's' does
CreateMenuEsc_resets_form(s) ==
    [s EXCEPT !.todo_title = <<>>,
              !.todo_description = <<>>,
              !.todo_due_date = None,
              !.state = List(None)]

\* Esc and 'q' at the menu
CreateMenuEsc(s) == [s EXCEPT !.state = List(None)]

CreateMenuUpperD(s) ==
    [s EXCEPT !.state = Create(Some("DueDate"), s.state.idx)]

CreateMenuLowerD(s) ==
    [s EXCEPT !.state = Create(Some("Description"), s.state.idx),
              !.input = s.todo_description]

CreateMenuT(s) ==
    [s EXCEPT !.state = Create(Some("Title"), s.state.idx),
              !.input = s.todo_title]

CreateMenuS(s, f) ==
    LET edit_todo_index == s.state.idx
        s1 == IF IsSome(edit_todo_index)
              THEN LET index == Unwrap(edit_todo_index)
                   IN  IF ~InBounds(index, s.todos) THEN Panic(s)
                       ELSE LET updated_todo ==
                                  [At(s.todos, index) EXCEPT
                                     !.due_date = s.todo_due_date,
                                     !.title = s.todo_title,
                                     !.description = Some(s.todo_description)]
                            IN  [s EXCEPT !.db = update_todo(@, updated_todo, f),
                                          !.op = "update_todo",
                                          !.hf = f]
              ELSE IF ~IsSome(s.lists_sel) THEN Panic(s)
                   ELSE IF ~InBounds(Unwrap(s.lists_sel), s.lists) THEN Panic(s)
                   ELSE save_todo(s,
                            Unwrap(At(s.lists, Unwrap(s.lists_sel)).id), f)
    IN  IF s1.panic THEN s1
        ELSE [s1 EXCEPT !.todo_title = <<>>,
                        !.todo_description = <<>>,
                        !.todo_due_date = None,
                        !.state = List(None)]

-----------------------------------------------------------------------------
(* main.rs: run, the key handlers of AppState::CreateList(field) *)

CreateListFieldChar(s, c) == [s EXCEPT !.input = Append(@, c)]

CreateListFieldBackspace(s) == [s EXCEPT !.input = Pop(@)]

\* Esc on the field of the list form leaving the buffer as typed
CreateListFieldEsc_keeps_input(s) == [s EXCEPT !.state = CreateList(None)]

CreateListFieldEsc(s) ==
    [s EXCEPT !.input = <<>>, !.state = CreateList(None)]

CreateListFieldEnter(s) ==
    IF Unwrap(s.state.field) = "Title"
    THEN [s EXCEPT !.list_title = s.input,
                   !.input = <<>>,
                   !.state = CreateList(None)]
    ELSE s

\* Esc and 'q' at the menu
CreateListMenuEsc(s) == [s EXCEPT !.state = List(None)]

CreateListMenuT(s) == [s EXCEPT !.state = CreateList(Some("Title"))]

CreateListMenuS(s, f) ==
    [save_todo_list(s, s.list_title, f) EXCEPT
        !.input = <<>>, !.state = List(None)]

-----------------------------------------------------------------------------
(* main.rs: run, the dispatch of a key press *)

\* crossterm's KeyCode
Char(c) == <<"Char", c>>
Esc == <<"Esc">>
Enter == <<"Enter">>
Backspace == <<"Backspace">>
IsChar(key) == key[1] = "Char"

\* match state.state { .. match key.code { .. } }; f is the fault the
\* handler's store call meets, bld the build an overflow would show
HandleKey(s, key, f, bld) ==
    IF s.state.tag = "List" THEN
        CASE key = Char("q") -> ListQ(s)
          [] key = Char("v") -> ListV(s)
          [] key = Char("E") -> ListE(s)
          [] key = Char("N") -> ListN(s)
          [] key = Char("L") -> ListL(s)
          [] key = Char("D") -> ListD(s, f)
          [] key = Char("j") -> ListJ(s, bld)
          [] key = Char("k") -> ListK(s)
          [] key = Char("h") -> ListH(s)
          [] key = Char("l") -> ListLowerL(s, f)
          [] key = Char(" ") -> ListSpace(s, f)
          [] OTHER -> s
    ELSE IF s.state.tag = "Create" THEN
        IF IsSome(s.state.field) THEN
            CASE IsChar(key) -> CreateFieldChar(s, key[2])
              [] key = Backspace -> CreateFieldBackspace(s)
              [] key = Esc -> CreateFieldEsc(s)
              [] key = Enter -> CreateFieldEnter(s)
              [] OTHER -> s
        ELSE
            CASE key = Esc -> CreateMenuEsc(s)
              [] key = Char("q") -> CreateMenuEsc(s)
              [] key = Char("D") -> CreateMenuUpperD(s)
              [] key = Char("d") -> CreateMenuLowerD(s)
              [] key = Char("t") -> CreateMenuT(s)
              [] key = Char("s") -> CreateMenuS(s, f)
              [] OTHER -> s
    ELSE
        IF IsSome(s.state.field) THEN
            CASE IsChar(key) -> CreateListFieldChar(s, key[2])
              [] key = Backspace -> CreateListFieldBackspace(s)
              [] key = Esc -> CreateListFieldEsc(s)
              [] key = Enter -> CreateListFieldEnter(s)
              [] OTHER -> s
        ELSE
            CASE key = Esc -> CreateListMenuEsc(s)
              [] key = Char("q") -> CreateListMenuEsc(s)
              [] key = Char("t") -> CreateListMenuT(s)
              [] key = Char("s") -> CreateListMenuS(s, f)
              [] OTHER -> s

\* s at the start of an iteration: nothing called yet
NewStep(s) ==
    [s EXCEPT !.overflow = None, !.op = "none", !.hf = 0, !.fl = 0, !.ft = 0]

\* one iteration of the loop from the poll on: the handler of the key, then
\* the head of the next iteration; a panic or the break ends the loop
Step(s, key, f, fl, ft, bld) ==
    LET s1 == HandleKey(NewStep(s), key, f, bld)
    IN  IF s1.panic \/ s1.quit THEN s1 ELSE Render(s1, fl, ft)

\* a sequence of key presses with every store call succeeding; the loop has
\* ended once panic or quit is set
RECURSIVE Presses(_, _, _)
Presses(s, keys, bld) ==
    IF keys = <<>> \/ s.panic \/ s.quit THEN s
    ELSE Presses(Step(s, Head(keys), 0, 0, 0, bld), Tail(keys), bld)

-----------------------------------------------------------------------------
(* The store at start-up: what earlier sessions of the program left *)

InitDues == {None, Some(DateText(Today + 1))}
InitCompleted == {FALSE}

InitListRows(n) == [i \in 1..n |-> [id |-> i, title |-> <<"a">>]]

\* a row as add_todo and toggle_todo_completion leave it
InitTodoRow(i, list_id, due, completed) ==
    [id |-> i, list_id |-> list_id, title |-> <<"a">>,
     description |-> Some(<<>>), due_date |-> due, completed |-> completed,
     completed_date |-> IF completed THEN Some(DateTimeText(Today)) ELSE None]

\* the todos tables of at most maxTodos rows over n lists
InitTodoRows(n, maxTodos, dues, completeds) ==
    UNION {
      { [i \in 1..m |-> InitTodoRow(i, c[i][1], c[i][2], c[i][3])] :
          c \in [1..m -> (1..n) \X dues \X completeds] }
      : m \in 0..maxTodos }

InitStores ==
    UNION { { [lists |-> InitListRows(n), todos |-> t] :
                t \in InitTodoRows(n, MaxInitTodos, InitDues, InitCompleted) }
            : n \in 0..MaxInitLists }

\* the characters typed into the fields of the forms
Chars == {"0"}

-----------------------------------------------------------------------------
(* The interactive session: one action is one iteration of the loop from    *)
(* the poll on (Step).  F is the set of faults the store calls may meet:    *)
(* {0} when every call succeeds.  K bounds the key presses of the session.  *)

\* main: State { .. }
StartState ==
    /\ mode = List(None)
    /\ list_title = <<>>
    /\ input = <<>>
    /\ todo_title = <<>>
    /\ todo_description = <<>>
    /\ todo_due_date = None
    /\ lists_sel = None
    /\ todo_sel = None
    /\ selecting_list = TRUE
    /\ run = "running"
    /\ build = "any"
    /\ nkeys = 0
    /\ args = [date |-> None, count |-> FALSE]
    /\ stdout = <<>>

\* run: lists = get_lists(), todos = vec![], and the first frame
InitWith(F, stores) ==
    /\ db \in stores
    /\ \E fl \in F \ {2} :
         /\ lists = get_lists(db, fl)
         /\ last = [op |-> "none", hf |-> 0, fl |-> fl, ft |-> 0]
    /\ todos = <<>>
    /\ StartState


\* the state s2 an iteration ends in, written to the variables
Commit(s2) ==
    /\ db' = s2.db
    /\ lists' = s2.lists
    /\ todos' = s2.todos
    /\ mode' = s2.state
    /\ list_title' = s2.list_title
    /\ todo_title' = s2.todo_title
    /\ todo_description' = s2.todo_description
    /\ todo_due_date' = s2.todo_due_date
    /\ input' = s2.input
    /\ lists_sel' = s2.lists_sel
    /\ todo_sel' = s2.todo_sel
    /\ selecting_list' = s2.selecting_list
    /\ run' = IF s2.panic THEN "panic"
              ELSE IF s2.quit THEN "quit" ELSE "running"
    /\ last' = [op |-> s2.op, hf |-> s2.hf, fl |-> s2.fl, ft |-> s2.ft]
    /\ build' = IF IsSome(s2.overflow) THEN Unwrap(s2.overflow) ELSE build
    /\ UNCHANGED <<args, stdout>>

\* event::poll returned the key press `key`, in a session of at most K of
\* them, and the loop handled it
KeyPress(F, K, key) ==
    /\ run = "running"
    /\ nkeys < K
    /\ nkeys' = nkeys + 1
    /\ \E f \in F, fl, ft \in F \ {2} :
       \E bld \in (IF build = "any" THEN Builds ELSE {build}) :
          Commit(Step(Cur, key, f, fl, ft, bld))

KeyListQ(F, K) ==
    /\ mode.tag = "List" /\ ~IsSome(mode.field)
    /\ KeyPress(F, K, Char("q"))
KeyListV(F, K) ==
    /\ mode.tag = "List" /\ ~IsSome(mode.field)
    /\ KeyPress(F, K, Char("v"))
KeyListE(F, K) ==
    /\ mode.tag = "List" /\ ~IsSome(mode.field)
    /\ KeyPress(F, K, Char("E"))
KeyListN(F, K) ==
    /\ mode.tag = "List" /\ ~IsSome(mode.field)
    /\ KeyPress(F, K, Char("N"))
KeyListL(F, K) ==
    /\ mode.tag = "List" /\ ~IsSome(mode.field)
    /\ KeyPress(F, K, Char("L"))
KeyListD(F, K) ==
    /\ mode.tag = "List" /\ ~IsSome(mode.field)
    /\ KeyPress(F, K, Char("D"))
KeyListJ(F, K) ==
    /\ mode.tag = "List" /\ ~IsSome(mode.field)
    /\ KeyPress(F, K, Char("j"))
KeyListK(F, K) ==
    /\ mode.tag = "List" /\ ~IsSome(mode.field)
    /\ KeyPress(F, K, Char("k"))
KeyListH(F, K) ==
    /\ mode.tag = "List" /\ ~IsSome(mode.field)
    /\ KeyPress(F, K, Char("h"))
KeyListLowerL(F, K) ==
    /\ mode.tag = "List" /\ ~IsSome(mode.field)
    /\ KeyPress(F, K, Char("l"))
KeyListSpace(F, K) ==
    /\ mode.tag = "List" /\ ~IsSome(mode.field)
    /\ KeyPress(F, K, Char(" "))

KeyCreateFieldChar(F, K) ==
    /\ mode.tag = "Create" /\ IsSome(mode.field)
    /\ \E c \in Chars : KeyPress(F, K, Char(c))
KeyCreateFieldBackspace(F, K) ==
    /\ mode.tag = "Create" /\ IsSome(mode.field)
    /\ KeyPress(F, K, Backspace)
KeyCreateFieldEsc(F, K) ==
    /\ mode.tag = "Create" /\ IsSome(mode.field)
    /\ KeyPress(F, K, Esc)
KeyCreateFieldEnter(F, K) ==
    /\ mode.tag = "Create" /\ IsSome(mode.field)
    /\ KeyPress(F, K, Enter)
KeyCreateMenuEsc(F, K) ==
    /\ mode.tag = "Create" /\ ~IsSome(mode.field)
    /\ \E key \in {Esc, Char("q")} : KeyPress(F, K, key)
KeyCreateMenuUpperD(F, K) ==
    /\ mode.tag = "Create" /\ ~IsSome(mode.field)
    /\ KeyPress(F, K, Char("D"))
KeyCreateMenuLowerD(F, K) ==
    /\ mode.tag = "Create" /\ ~IsSome(mode.field)
    /\ KeyPress(F, K, Char("d"))
KeyCreateMenuT(F, K) ==
    /\ mode.tag = "Create" /\ ~IsSome(mode.field)
    /\ KeyPress(F, K, Char("t"))
KeyCreateMenuS(F, K) ==
    /\ mode.tag = "Create" /\ ~IsSome(mode.field)
    /\ KeyPress(F, K, Char("s"))

KeyCreateListFieldChar(F, K) ==
    /\ mode.tag = "CreateList" /\ IsSome(mode.field)
    /\ \E c \in Chars : KeyPress(F, K, Char(c))
KeyCreateListFieldBackspace(F, K) ==
    /\ mode.tag = "CreateList" /\ IsSome(mode.field)
    /\ KeyPress(F, K, Backspace)
KeyCreateListFieldEsc(F, K) ==
    /\ mode.tag = "CreateList" /\ IsSome(mode.field)
    /\ KeyPress(F, K, Esc)
KeyCreateListFieldEnter(F, K) ==
    /\ mode.tag = "CreateList" /\ IsSome(mode.field)
    /\ KeyPress(F, K, Enter)
KeyCreateListMenuEsc(F, K) ==
    /\ mode.tag = "CreateList" /\ ~IsSome(mode.field)
    /\ \E key \in {Esc, Char("q")} : KeyPress(F, K, key)
KeyCreateListMenuT(F, K) ==
    /\ mode.tag = "CreateList" /\ ~IsSome(mode.field)
    /\ KeyPress(F, K, Char("t"))
KeyCreateListMenuS(F, K) ==
    /\ mode.tag = "CreateList" /\ ~IsSome(mode.field)
    /\ KeyPress(F, K, Char("s"))

NextWith(F, K) ==
    \/ KeyListQ(F, K) \/ KeyListV(F, K) \/ KeyListE(F, K) \/ KeyListN(F, K)
    \/ KeyListL(F, K) \/ KeyListD(F, K) \/ KeyListJ(F, K) \/ KeyListK(F, K)
    \/ KeyListH(F, K) \/ KeyListLowerL(F, K) \/ KeyListSpace(F, K)
    \/ KeyCreateFieldChar(F, K) \/ KeyCreateFieldBackspace(F, K)
    \/ KeyCreateFieldEsc(F, K) \/ KeyCreateFieldEnter(F, K)
    \/ KeyCreateMenuEsc(F, K) \/ KeyCreateMenuUpperD(F, K)
    \/ KeyCreateMenuLowerD(F, K) \/ KeyCreateMenuT(F, K)
    \/ KeyCreateMenuS(F, K)
    \/ KeyCreateListFieldChar(F, K) \/ KeyCreateListFieldBackspace(F, K)
    \/ KeyCreateListFieldEsc(F, K) \/ KeyCreateListFieldEnter(F, K)
    \/ KeyCreateListMenuEsc(F, K) \/ KeyCreateListMenuT(F, K)
    \/ KeyCreateListMenuS(F, K)

\* every store call succeeds
NoFaults == {0}

Init == InitWith(NoFaults, InitStores)
Next == NextWith(NoFaults, MaxKeys)
Spec == Init /\ [][Next]_vars

-----------------------------------------------------------------------------
(* The session when store calls may fail.  With every call succeeding and   *)
(* no other writer, a frame without a key press fetches what the last frame *)
(* fetched; here its fetches may fail.                                      *)

\* 0: the call succeeds; 1: open_db or the first statement fails; 2: the
\* second statement fails
AllFaults == {0, 1, 2}

\* event::poll timed out: the next frame
Tick(F) ==
    /\ run = "running"
    /\ mode.tag = "List"
    /\ \E fl, ft \in F \ {2} : Commit(Render(NewStep(Cur), fl, ft))
    /\ UNCHANGED nkeys

FaultInit == InitWith(AllFaults, InitStores)
FaultNext == NextWith(AllFaults, MaxFaultKeys) \/ Tick(AllFaults)
FaultSpec == FaultInit /\ [][FaultNext]_vars

-----------------------------------------------------------------------------
(* The session beside another process that deletes from the same sqlite    *)
(* file (a second instance of the program): its statements fall between    *)
(* the store calls of this one.                                            *)

ExternalDeleteList ==
    /\ run = "running"
    /\ \E i \in 1..Len(db.lists) : db' = delete_list(db, db.lists[i].id, 0)
    /\ UNCHANGED <<lists, todos, mode, list_title, todo_title,
                   todo_description, todo_due_date, input, lists_sel,
                   todo_sel, selecting_list, run, build, nkeys, last, args,
                   stdout>>

ExternalDeleteTodo ==
    /\ run = "running"
    /\ \E i \in 1..Len(db.todos) : db' = delete_todo(db, db.todos[i].id, 0)
    /\ UNCHANGED <<lists, todos, mode, list_title, todo_title,
                   todo_description, todo_due_date, input, lists_sel,
                   todo_sel, selecting_list, run, build, nkeys, last, args,
                   stdout>>

ExtNext ==
    \/ NextWith(NoFaults, MaxExtKeys)
    \/ Tick(NoFaults)
    \/ ExternalDeleteList
    \/ ExternalDeleteTodo
ExtSpec == Init /\ [][ExtNext]_vars

-----------------------------------------------------------------------------
(* The navigation functions alone: any sequence of calls of move_up and     *)
(* move_down on the two panes, against sequences of fixed lengths, from     *)
(* unset cursors.                                                           *)

NavInit ==
    /\ db = [lists |-> <<>>, todos |-> <<>>]
    /\ \E n \in 0..MaxNavLen : lists = MapSeq(InitListRows(n), RowToList)
    /\ \E m \in 0..MaxNavLen :
         todos = MapSeq([i \in 1..m |-> InitTodoRow(i, 1, None, FALSE)],
                        RowToTodo)
    /\ last = [op |-> "none", hf |-> 0, fl |-> 0, ft |-> 0]
    /\ StartState

\* the call leaves s
NavCall(s) ==
    /\ run = "running"
    /\ nkeys < MaxNavCalls
    /\ nkeys' = nkeys + 1
    /\ lists_sel' = s.lists_sel
    /\ todo_sel' = s.todo_sel
    /\ run' = IF s.panic THEN "panic" ELSE "running"
    /\ build' = IF IsSome(s.overflow) THEN Unwrap(s.overflow) ELSE build
    /\ UNCHANGED <<db, lists, todos, mode, list_title, todo_title,
                   todo_description, todo_due_date, input, selecting_list,
                   last, args, stdout>>

NavListsMoveUp ==
    /\ mode.tag = "List"
    /\ NavCall(lists_move_up(Cur))

NavTodosMoveUp ==
    /\ mode.tag = "List"
    /\ NavCall(todos_move_up(Cur))

NavListsMoveDown ==
    /\ mode.tag = "List"
    /\ \E bld \in (IF build = "any" THEN Builds ELSE {build}) :
          NavCall(lists_move_down(Cur, bld))

NavTodosMoveDown ==
    /\ mode.tag = "List"
    /\ \E bld \in (IF build = "any" THEN Builds ELSE {build}) :
          NavCall(todos_move_down(Cur, bld))

NavNext ==
    \/ NavListsMoveUp \/ NavTodosMoveUp
    \/ NavListsMoveDown \/ NavTodosMoveDown

NavSpec == NavInit /\ [][NavNext]_vars

-----------------------------------------------------------------------------
(* One list looked at: the store holds one list whose todos have any due    *)
(* dates and completion, the user selects it, enters it and toggles.        *)

SortDues == {None, Some(DateText(Today + 1)), Some(DateText(Today + 5)),
             Some(DateText(Today + 10))}

SortStores ==
    { [lists |-> InitListRows(1), todos |-> t] :
        t \in InitTodoRows(1, MaxSortLen, SortDues, BOOLEAN) }

SortInit == InitWith(NoFaults, SortStores)
SortNext ==
    \/ KeyListJ(NoFaults, MaxSortKeys)
    \/ KeyListLowerL(NoFaults, MaxSortKeys)
    \/ KeyListSpace(NoFaults, MaxSortKeys)
SortSpec == SortInit /\ [][SortNext]_vars

-----------------------------------------------------------------------------
(* The due date field: the session has come to the DueDate field of the     *)
(* form, creating a todo or editing one, and the user types and commits.    *)

DueChars == {"0", "9", "-"}

DueStores ==
    { [lists |-> InitListRows(1), todos |-> t] :
        t \in InitTodoRows(1, 1, InitDues, InitCompleted) }

\* the key presses that lead from start-up to the DueDate field
DuePaths ==
    { <<Char("j"), Char("N"), Enter, Enter>>,
      <<Char("j"), Char("l"), Char("E"), Enter, Enter>> }

\* run at start-up over the store d, after the first frame
StartCur(d) ==
    [db |-> d, lists |-> get_lists(d, 0), todos |-> <<>>,
     state |-> List(None), list_title |-> <<>>, todo_title |-> <<>>,
     todo_description |-> <<>>, todo_due_date |-> None, input |-> <<>>,
     lists_sel |-> None, todo_sel |-> None, selecting_list |-> TRUE,
     panic |-> FALSE, quit |-> FALSE, overflow |-> None,
     op |-> "none", hf |-> 0, fl |-> 0, ft |-> 0]

DueInit ==
    \E d \in DueStores, path \in DuePaths :
        LET s == Presses(StartCur(d), path, "debug")
        IN  /\ s.state.tag = "Create" /\ s.state.field = Some("DueDate")
            /\ db = s.db
            /\ lists = s.lists
            /\ todos = s.todos
            /\ mode = s.state
            /\ list_title = s.list_title
            /\ todo_title = s.todo_title
            /\ todo_description = s.todo_description
            /\ todo_due_date = s.todo_due_date
            /\ input = s.input
            /\ lists_sel = s.lists_sel
            /\ todo_sel = s.todo_sel
            /\ selecting_list = s.selecting_list
            /\ run = "running"
            /\ build = "any"
            /\ nkeys = 0
            /\ last = [op |-> "none", hf |-> 0, fl |-> 0, ft |-> 0]
            /\ args = [date |-> None, count |-> FALSE]
            /\ stdout = <<>>

DueFieldChar ==
    /\ mode.tag = "Create" /\ mode.field = Some("DueDate")
    /\ Len(input) < MaxDueInput
    /\ \E c \in DueChars : KeyPress(NoFaults, MaxDueKeys, Char(c))
DueFieldBackspace ==
    /\ mode.tag = "Create" /\ mode.field = Some("DueDate")
    /\ KeyPress(NoFaults, MaxDueKeys, Backspace)
DueFieldEnter ==
    /\ mode.tag = "Create" /\ mode.field = Some("DueDate")
    /\ KeyPress(NoFaults, MaxDueKeys, Enter)

DueNext == DueFieldChar \/ DueFieldBackspace \/ DueFieldEnter
DueSpec == DueInit /\ [][DueNext]_vars

-----------------------------------------------------------------------------
(* main: with --date or --count it queries, prints and returns; otherwise   *)
(* it builds the State and enters run.                                      *)

OneShotDues == {None, Some(DateText(Today - 1)), Some(DateText(Today)),
                Some(DateText(Today + 1)), Some(DateText(FirstSignedDay))}
OneShotDates == {Today - 1, Today, FirstSignedDay}

OneShotStores ==
    { [lists |-> InitListRows(MaxInitLists), todos |-> t] :
        t \in InitTodoRows(MaxInitLists, MaxOneShotTodos, OneShotDues, BOOLEAN) }

\* the process starts: Args::parse() has returned
OneShotInit ==
    /\ db \in OneShotStores
    /\ args \in [date : {None} \cup {Some(d) : d \in OneShotDates},
                 count : BOOLEAN]
    /\ run = "main"
    /\ lists = <<>>
    /\ todos = <<>>
    /\ mode = List(None)
    /\ list_title = <<>>
    /\ input = <<>>
    /\ todo_title = <<>>
    /\ todo_description = <<>>
    /\ todo_due_date = None
    /\ lists_sel = None
    /\ todo_sel = None
    /\ selecting_list = TRUE
    /\ build = "any"
    /\ nkeys = 0
    /\ last = [op |-> "none", hf |-> 0, fl |-> 0, ft |-> 0]
    /\ stdout = <<>>

\* println!("{}\t{}\t{:?}", t.id.unwrap_or(0), t.due_date.expect(..), t.title)
TodoLine(t) ==
    <<IF IsSome(t.id) THEN Unwrap(t.id) ELSE 0, Unwrap(t.due_date), t.title>>

\* the lines printed before the first todo without a due date
RECURSIVE TodoLines(_)
TodoLines(ts) ==
    IF ts = <<>> \/ ~IsSome(Head(ts).due_date) THEN <<>>
    ELSE <<TodoLine(Head(ts))>> \o TodoLines(Tail(ts))

\* main, date.is_some() || count
MainOneShot ==
    /\ run = "main"
    /\ IsSome(args.date) \/ args.count
    /\ \E f \in NoFaults \cup {1} :
         LET date == IF IsSome(args.date) THEN Unwrap(args.date) ELSE Today
             fetched == fetch_incomplete_todos(db, date, f)
         IN  /\ last' = [op |-> "fetch_incomplete_todos", hf |-> f,
                         fl |-> 0, ft |-> 0]
             /\ IF ~IsSome(fetched)
                THEN stdout' = << <<"Err">> >> /\ run' = "exit"
                ELSE IF args.count
                THEN /\ stdout' = << <<"count", Len(Unwrap(fetched))>> >>
                     /\ run' = "exit"
                ELSE /\ stdout' = TodoLines(Unwrap(fetched))
                     /\ run' = IF Len(stdout') = Len(Unwrap(fetched))
                               THEN "exit" ELSE "panic"
    /\ UNCHANGED <<db, lists, todos, mode, list_title, todo_title,
                   todo_description, todo_due_date, input, lists_sel,
                   todo_sel, selecting_list, build, nkeys, args>>

\* main without flags: run starts and draws its first frame
MainInteractive ==
    /\ run = "main"
    /\ ~(IsSome(args.date) \/ args.count)
    /\ run' = "running"
    /\ lists' = get_lists(db, 0)
    /\ UNCHANGED <<db, todos, mode, list_title, todo_title,
                   todo_description, todo_due_date, input, lists_sel,
                   todo_sel, selecting_list, build, nkeys, last, args, stdout>>

OneShotNext ==
    \/ MainOneShot
    \/ MainInteractive
    \/ KeyListJ(NoFaults, MaxOneShotKeys)
    \/ KeyListQ(NoFaults, MaxOneShotKeys)
OneShotSpec == OneShotInit /\ [][OneShotNext]_vars

-----------------------------------------------------------------------------
(* Editing todos: the store holds one list whose todos have any description *)
(* the column admits (NULL, empty, a text); the user selects a todo, opens  *)
(* the form on it and saves.  No statement of the program writes a NULL     *)
(* description; the column is nullable and rows written by other tools      *)
(* may hold one, which fetch_todos and E accept.                            *)

EditDescriptions == {None, Some(<<>>), Some(<<"d">>)}

EditTodoRows ==
    UNION {
      { [i \in 1..m |->
            [InitTodoRow(i, 1, c[i][1], FALSE) EXCEPT !.description = c[i][2]]] :
          c \in [1..m -> InitDues \X EditDescriptions] }
      : m \in 0..MaxEditTodos }

EditStores == { [lists |-> InitListRows(1), todos |-> t] : t \in EditTodoRows }

EditInit == InitWith(NoFaults, EditStores)
EditNext ==
    \/ KeyListJ(NoFaults, MaxEditKeys)
    \/ KeyListLowerL(NoFaults, MaxEditKeys)
    \/ KeyListE(NoFaults, MaxEditKeys)
    \/ KeyCreateFieldEnter(NoFaults, MaxEditKeys)
    \/ KeyCreateFieldEsc(NoFaults, MaxEditKeys)
    \/ KeyCreateMenuLowerD(NoFaults, MaxEditKeys)
    \/ KeyCreateMenuS(NoFaults, MaxEditKeys)
EditSpec == EditInit /\ [][EditNext]_vars

-----------------------------------------------------------------------------
(* Claims *)

\* C1: for each pane and every fixed length L >= 0, after any sequence of
\* move_up / move_down calls from an unset cursor, the cursor is unset or
\* 0 <= cursor < L.
C1_CursorInRange ==
    /\ IsSome(lists_sel) =>
         0 <= Unwrap(lists_sel) /\ Unwrap(lists_sel) < Len(lists)
    /\ IsSome(todo_sel) =>
         0 <= Unwrap(todo_sel) /\ Unwrap(todo_sel) < Len(todos)

\* the todos of the selected list as the next frame fetches them
NextFrameTodos ==
    IF IsSome(lists_sel) /\ InBounds(Unwrap(lists_sel), get_lists(db, 0))
    THEN get_todos(db, Unwrap(At(get_lists(db, 0), Unwrap(lists_sel)).id), 0)
    ELSE <<>>

\* C2: in every state reached by key presses with the store calls succeeding,
\* a set lists cursor is below the number of lists and a set todos cursor is
\* below the number of todos of the selected list; so the cursor of an empty
\* pane is unset.
C2_CursorsWithinPanes ==
    /\ IsSome(lists_sel) => Unwrap(lists_sel) < Len(get_lists(db, 0))
    /\ IsSome(todo_sel) => Unwrap(todo_sel) < Len(NextFrameTodos)

\* C3: a store call that fails does not abort the loop; in particular, when
\* fetch_lists fails in a frame while the lists cursor is set (and within the
\* lists the store holds), the loop goes on to the next frame.
C3_FetchFailureDoesNotAbort ==
    [][(/\ last'.fl # 0
        /\ IsSome(lists_sel')
        /\ Unwrap(lists_sel') < Len(db'.lists))
       => run' # "panic"]_vars

\* the todos of every list, as fetch_todos gives them to the core
FetchedTodos(d) ==
    UNION { { Unwrap(fetch_todos(d, d.lists[i].id, 0))[j] :
                j \in 1..Len(Unwrap(fetch_todos(d, d.lists[i].id, 0))) }
            : i \in 1..Len(d.lists) }

\* C4: every todo as fetched by the core has completed_date set if and only
\* if completed is true.
C4_CompletedDateIffCompleted ==
    \A t \in FetchedTodos(db) : IsSome(t.completed_date) <=> t.completed

\* C6: for every todo in the store, two successive calls of
\* toggle_todo_completion(id, !completed), each with the negation of the
\* value then stored, restore completed; a todo that was not completed is
\* again not completed and has no completed_date, in the row and as fetched.
C6_ToggleTwiceRestores ==
    \A i \in 1..Len(db.todos) :
        LET r == db.todos[i]
            d1 == toggle_todo_completion(db, r.id, ~r.completed, 0)
            d2 == toggle_todo_completion(d1, r.id, ~d1.todos[i].completed, 0)
            r2 == d2.todos[i]
        IN  /\ d1.todos[i].completed = ~r.completed
            /\ r2.completed = r.completed
            /\ (~r.completed) =>
                 /\ r2.completed_date = None
                 /\ RowToTodo(r2).completed_date = None
                 /\ r.completed_date = None => d2 = db
            /\ \A j \in 1..Len(db.todos) :
                 j # i => d1.todos[j] = db.todos[j] /\ d2.todos[j] = db.todos[j]

\* the session toggled the only todo twice: j, l, space, space
C6_Witness ==
    /\ nkeys = 4
    /\ last.op = "toggle_todo_completion" /\ last.hf = 0
    /\ Len(db.todos) = 1
    /\ ~db.todos[1].completed
    /\ db.todos[1].completed_date = None

\* the key (completed, has no due date, due date) of a todo
SortKey(t) ==
    <<IF t.completed THEN 1 ELSE 0,
      IF IsSome(t.due_date) THEN 0 ELSE 1,
      IF IsSome(t.due_date) THEN Unwrap(t.due_date) ELSE 0>>

\* the lexicographic order of the keys
KeyLess(a, b) ==
    \/ a[1] < b[1]
    \/ a[1] = b[1] /\ a[2] < b[2]
    \/ a[1] = b[1] /\ a[2] = b[2] /\ a[3] < b[3]

\* sorted is fetched in the order of one stable sort by SortKey
IsStableSort(sorted, fetched) ==
    /\ Len(sorted) = Len(fetched)
    /\ \E pi \in [1..Len(fetched) -> 1..Len(fetched)] :
         /\ \A p \in 1..Len(fetched) : sorted[pi[p]] = fetched[p]
         /\ \A p, q \in 1..Len(fetched) :
              p < q =>
                IF KeyLess(SortKey(fetched[q]), SortKey(fetched[p]))
                THEN pi[q] < pi[p]
                ELSE pi[p] < pi[q]

\* C7: the todos displayed for the selected list are the fetched todos in the
\* order of a single stable sort by the key (completed, has no due date, due
\* date), all ascending, ties keeping the order of the store.
C7_DisplayOrder ==
    (run = "running" /\ mode.tag = "List" /\ IsSome(lists_sel)) =>
        /\ todos = get_todos(db, Unwrap(At(lists, Unwrap(lists_sel)).id), 0)
        /\ IsStableSort(todos,
             Unwrap(fetch_todos(db, Unwrap(At(lists, Unwrap(lists_sel)).id), 0)))

\* the fetched todos of the example: (due +10, open), (no due, open),
\* (due +5, open), (due +1, done) are displayed as +5, +10, no due, done
C7_Witness ==
    /\ run = "running" /\ mode.tag = "List" /\ IsSome(lists_sel)
    /\ Len(db.todos) = 4
    /\ MapSeq(db.todos, LAMBDA r : <<r.due_date, r.completed>>) =
         << <<Some(DateText(Today + 10)), FALSE>>, <<None, FALSE>>,
            <<Some(DateText(Today + 5)), FALSE>>,
            <<Some(DateText(Today + 1)), TRUE>> >>
    /\ MapSeq(todos, LAMBDA t : t.id) = <<Some(3), Some(1), Some(2), Some(4)>>
    /\ MapSeq(todos, LAMBDA t : <<t.due_date, t.completed>>) =
         << <<Some(Today + 5), FALSE>>, <<Some(Today + 10), FALSE>>,
            <<None, FALSE>>, <<Some(Today + 1), TRUE>> >>

\* C8: enter on the DueDate field: when the buffer parses as a non-negative
\* integer N the staged due date becomes today + N days and the loop goes
\* on; when it does not parse the staged due date becomes none; either way
\* the buffer is cleared and the state becomes EditingTodo(None, editId).
C8_DueDateEnter ==
    (run = "running" /\ mode.tag = "Create" /\ mode.field = Some("DueDate")) =>
        LET parsed == ParseU64(input)
            s2 == Step(Cur, Enter, 0, 0, 0, "debug")
        IN  /\ ~s2.panic /\ ~s2.quit
            /\ s2.todo_due_date =
                 IF IsSome(parsed) THEN Some(Today + Unwrap(parsed)) ELSE None
            /\ s2.input = <<>>
            /\ s2.state = Create(None, mode.idx)

\* the list_id values of the rows of todos
TodoListIds(d) == { d.todos[i].list_id : i \in 1..Len(d.todos) }

\* C5: after a successful delete_list(id), issued by D on the selected list,
\* the list is absent from the fetched lists, no todo with list_id = id is
\* left, fetch_todos(id) is empty, and the other lists and the todos of every
\* other list are as before.
C5_DeleteListCascades ==
    [][(last'.op = "delete_list" /\ last'.hf = 0) =>
        LET list_id == Unwrap(At(lists, Unwrap(lists_sel)).id)
            after == Unwrap(fetch_lists(db', 0))
        IN  /\ \A i \in 1..Len(after) : after[i].id # Some(list_id)
            /\ \A i \in 1..Len(db'.todos) : db'.todos[i].list_id # list_id
            /\ fetch_todos(db', list_id, 0) = Some(<<>>)
            /\ \A other \in TodoListIds(db) \ {list_id} :
                 fetch_todos(db', other, 0) = fetch_todos(db, other, 0)
            /\ after = SelectSeq(Unwrap(fetch_lists(db, 0)),
                                 LAMBDA l : l.id # Some(list_id))
       ]_vars

\* a list that held a todo was deleted and todos of another list are left
C5_Witness ==
    /\ last.op = "delete_list" /\ last.hf = 0
    /\ run = "running"
    /\ nkeys = 2
    /\ Len(db.lists) = 1 /\ Len(db.todos) = 1
    /\ db.todos[1].id = 2

\* the titles typed in C9
C9Titles == {<<>>, <<"m">>, <<"q", "s">>, <<"N", "0", " ">>}

\* C9: from any Browsing state with a list selected, the keys N, <title>,
\* enter, enter, '0', enter lead to the menu EditingTodo(None, None) with the
\* title staged as typed, an empty description and today as due date; s there
\* adds exactly one todo with these values to the selected list (not
\* completed, no completed_date), changes no other todo, clears the staged
\* fields and returns to Browsing(None).
C9_CreateTodoByKeys ==
    (run = "running" /\ mode.tag = "List" /\ IsSome(lists_sel)) =>
    \A title \in C9Titles :
        LET keys == <<Char("N")>> \o MapSeq(title, Char)
                    \o <<Enter, Enter, Char("0"), Enter>>
            s6 == Presses(Cur, keys, "debug")
            s7 == Presses(s6, <<Char("s")>>, "debug")
            list_id == Unwrap(At(lists, Unwrap(lists_sel)).id)
            n == Len(db.todos)
        IN  /\ ~s6.panic /\ ~s6.quit
            /\ s6.state = Create(None, None)
            /\ s6.todo_title = title
            /\ s6.todo_description = <<>>
            /\ s6.todo_due_date = Some(Today)
            /\ s6.db = db
            /\ ~s7.panic /\ ~s7.quit
            /\ Len(s7.db.todos) = n + 1
            /\ SubSeq(s7.db.todos, 1, n) = db.todos
            /\ \A i \in 1..n : s7.db.todos[n + 1].id # db.todos[i].id
            /\ RowToTodo(s7.db.todos[n + 1]) =
                 Todo(Some(s7.db.todos[n + 1].id), list_id, title,
                      Some(<<>>), Some(Today), FALSE, None)
            /\ s7.db.lists = db.lists
            /\ s7.todo_title = <<>>
            /\ s7.todo_description = <<>>
            /\ s7.todo_due_date = None
            /\ s7.state = List(None)

\* the session pressed j, N, '0', enter, enter, '0', enter, s
C9_Witness ==
    /\ run = "running" /\ mode = List(None)
    /\ last.op = "add_todo" /\ last.hf = 0
    /\ todo_title = <<>> /\ todo_due_date = None
    /\ \E i \in 1..Len(db.todos) :
         /\ db.todos[i].title = <<"0">>
         /\ db.todos[i].description = Some(<<>>)
         /\ db.todos[i].due_date = Some(DateText(Today))
         /\ ~db.todos[i].completed

\* the store calls that write
Mutations == {"add_list", "add_todo", "toggle_todo_completion",
              "delete_list", "delete_todo", "update_todo"}

\* C10: a mutation whose store call fails leaves the store as it was before
\* the call, and the next frame shows the data of before.
C10_FailedMutationChangesNothing ==
    [][(last'.hf # 0 /\ last'.op \in Mutations) =>
        /\ db' = db
        /\ (run' = "running" /\ mode'.tag = "List" /\ last'.fl = 0)
              => lists' = get_lists(db, 0)
       ]_vars

\* the rows of todos that are not completed and due on or before date
DueBy(d, date) ==
    { i \in 1..Len(d.todos) :
        /\ ~d.todos[i].completed
        /\ IsSome(ParseDateColumn(d.todos[i].due_date))
        /\ Unwrap(ParseDateColumn(d.todos[i].due_date)) <= date }

\* C11: started with --date d or --count, main prints exactly the todos of
\* all lists that are not completed and have a due date <= d (today without
\* --date), or with --count their number; it returns without entering the
\* loop and without changing the store.
C11_OneShotQuery ==
    [][(run = "main" /\ (IsSome(args.date) \/ args.count)) =>
        LET date == IF IsSome(args.date) THEN Unwrap(args.date) ELSE Today
            want == DueBy(db, date)
        IN  /\ run' = "exit"
            /\ db' = db
            /\ last'.hf = 0 =>
                 IF args.count
                 THEN stdout' = << <<"count", Cardinality(want)>> >>
                 ELSE /\ Len(stdout') = Cardinality(want)
                      /\ { stdout'[k][1] : k \in 1..Len(stdout') }
                           = { db.todos[i].id : i \in want }
       ]_vars

\* C12: move_up on a pane of length >= 1: an unset cursor becomes 0, a cursor
\* c > 0 becomes c - 1, and a cursor at 0 stays at 0.
C12_MoveUp ==
    /\ Len(lists) >= 1 =>
         lists_move_up(Cur).lists_sel =
            IF ~IsSome(lists_sel) \/ lists_sel = Some(0) THEN Some(0)
            ELSE Some(Unwrap(lists_sel) - 1)
    /\ Len(todos) >= 1 =>
         todos_move_up(Cur).todo_sel =
            IF ~IsSome(todo_sel) \/ todo_sel = Some(0) THEN Some(0)
            ELSE Some(Unwrap(todo_sel) - 1)

\* C13: move_down never computes len - 1 on an empty sequence: no overflow
\* has happened, and whenever j can be handled with a set cursor the
\* sequence of the focused pane is not empty.
C13_MoveDownNeverUnderflows ==
    /\ build = "any"
    /\ (run = "running" /\ mode.tag = "List") =>
         /\ (selecting_list /\ IsSome(lists_sel)) => Len(lists) > 0
         /\ (~selecting_list /\ IsSome(todo_sel)) => Len(todos) > 0

\* the frame on display shows a list, and the cursors are within the
\* sequences it displays
CursorsWithinSnapshots ==
    /\ Len(lists) > 0
    /\ IsSome(lists_sel) => Unwrap(lists_sel) < Len(lists)
    /\ IsSome(todo_sel) => Unwrap(todo_sel) < Len(todos)

\* C14: when another process deletes lists or todos between two frames, the
\* cursors are clamped against the freshly fetched sequences before they
\* index them: from a Browsing frame that shows a list and whose cursors are
\* within the sequences it displays, neither the next frame nor a key
\* handler indexes past the end of a sequence.
C14_ExternalDeletionIsSafe ==
    [][(run = "running" /\ mode.tag = "List" /\ CursorsWithinSnapshots)
          => run' # "panic"]_vars

\* key presses between E and s that end at the menu of the form
C15Edits ==
    { <<Esc>>,
      <<Char("x"), Enter, Enter, Char("2"), Enter>>,
      <<Backspace, Enter, Char("d"), Enter, Enter>>,
      <<Esc, Char("D"), Char("1"), Enter>>,
      <<Esc, Char("d"), Char("y"), Enter, Esc, Char("t"), Char("z"), Esc>> }

\* C15: E on the selected todo copies its fields into the staged fields and
\* opens the form with editId = Some(i); s at the menu of that form updates
\* exactly that todo: title, description and due_date become the staged
\* values, id, list_id and completed stay, no other row and no list changes,
\* the staged fields are cleared and the state becomes Browsing(None).
C15_EditSave ==
    (/\ run = "running" /\ mode.tag = "List"
     /\ IsSome(lists_sel) /\ IsSome(todo_sel)
     /\ InBounds(Unwrap(todo_sel), todos)) =>
    LET i == Unwrap(todo_sel)
        t == At(todos, i)
        s1 == Presses(Cur, <<Char("E")>>, "debug")
    IN  /\ s1.state = Create(Some("Title"), Some(i))
        /\ s1.todo_title = t.title
        /\ s1.todo_due_date = t.due_date
        /\ s1.todo_description =
              IF IsSome(t.description) THEN Unwrap(t.description) ELSE <<>>
        /\ \A edits \in C15Edits :
             LET sm == Presses(s1, edits, "debug")
                 s2 == Presses(sm, <<Char("s")>>, "debug")
             IN  /\ sm.state = Create(None, Some(i))
                 /\ sm.db = db
                 /\ ~s2.panic /\ ~s2.quit
                 /\ Len(s2.db.todos) = Len(db.todos)
                 /\ s2.db.lists = db.lists
                 /\ \A k \in 1..Len(db.todos) :
                      IF Some(db.todos[k].id) = t.id
                      THEN /\ s2.db.todos[k].id = db.todos[k].id
                           /\ s2.db.todos[k].list_id = db.todos[k].list_id
                           /\ s2.db.todos[k].completed = db.todos[k].completed
                           /\ s2.db.todos[k].title = sm.todo_title
                           /\ s2.db.todos[k].description
                                = Some(sm.todo_description)
                           /\ s2.db.todos[k].due_date
                                = DateColumn(sm.todo_due_date)
                      ELSE s2.db.todos[k] = db.todos[k]
                 /\ s2.todo_title = <<>>
                 /\ s2.todo_description = <<>>
                 /\ s2.todo_due_date = None
                 /\ s2.state = List(None)
        /\ LET sm == Presses(s1, <<Char("x"), Enter, Enter, Char("2"), Enter>>,
                             "debug")
           IN  /\ sm.todo_title = Append(t.title, "x")
               /\ sm.todo_description = <<>>
               /\ sm.todo_due_date = Some(Today + 2)

\* the session edited the title of a todo: j, l, E, '0', enter, enter,
\* enter, s
C15_Witness ==
    /\ run = "running" /\ mode = List(None)
    /\ last.op = "update_todo" /\ last.hf = 0
    /\ todo_title = <<>>
    /\ \E k \in 1..Len(db.todos) :
         /\ db.todos[k].title = <<"a", "0">>
         /\ db.todos[k].description = Some(<<>>)
         /\ db.todos[k].due_date = None

\* the rows of todos of the list under the lists cursor
SelectedListRows ==
    IF IsSome(lists_sel)
    THEN { k \in 1..Len(db.todos) :
             Some(db.todos[k].list_id) = At(lists, Unwrap(lists_sel)).id }
    ELSE {}

\* C16: in Browsing, l with focus on lists moves the focus to todos and sets
\* the todos cursor to 0 exactly when the selected list has a todo, else the
\* cursor stays unset; h with focus on todos moves the focus to lists and
\* unsets the todos cursor; h with focus on lists changes nothing.
C16_FocusSwitch ==
    (run = "running" /\ mode.tag = "List") =>
    LET sl == Step(Cur, Char("l"), 0, 0, 0, "debug")
        sh == Step(Cur, Char("h"), 0, 0, 0, "debug")
        same(s) == /\ s.db = db /\ s.lists = lists /\ s.lists_sel = lists_sel
                   /\ ~s.panic /\ ~s.quit
    IN  IF selecting_list
        THEN /\ same(sl)
             /\ ~sl.selecting_list
             /\ sl.state = mode
             /\ sl.todo_sel =
                  IF SelectedListRows # {} THEN Some(0) ELSE None
             /\ same(sh)
             /\ sh.selecting_list
             /\ sh.todo_sel = todo_sel
             /\ sh.todos = todos
             /\ sh.state = mode
        ELSE /\ same(sh)
             /\ sh.selecting_list
             /\ sh.todo_sel = None

\* l has moved the focus to the todos of a list that has one
C16_Witness ==
    /\ run = "running" /\ mode.tag = "List"
    /\ ~selecting_list
    /\ last.op = "fetch_todos" /\ last.hf = 0
    /\ todo_sel = Some(0)
    /\ Len(todos) > 0

\* the todo form in the place of the list form: the same field and buffer,
\* the staged list title as the staged todo title
AsTodoForm(s) ==
    [s EXCEPT !.state = Create(s.state.field, None),
              !.todo_title = s.list_title]

\* C17: EditingList behaves as EditingTodo restricted to the field Title: at
\* an active field, a character, backspace, esc and enter change buffer and
\* staged title as they do in EditingTodo (enter ends at the menu, Title
\* being the last field); at the menu, esc and q return to Browsing(None), t
\* opens Title with the buffer preloaded with the staged list title, and s
\* adds exactly one list with the staged title, clears the staged list title
\* and returns to Browsing(None).
C17_ListFormMirrorsTodoForm ==
    (run = "running" /\ mode.tag = "CreateList") =>
    LET on(key) == HandleKey(NewStep(Cur), key, 0, "debug")
        todo(key) == HandleKey(NewStep(AsTodoForm(Cur)), key, 0, "debug")
        mirrors(key) ==
            /\ on(key).input = todo(key).input
            /\ on(key).list_title = todo(key).todo_title
            /\ on(key).state.field = todo(key).state.field
            /\ on(key).db = db
    IN  IF IsSome(mode.field)
        THEN /\ \A key \in {Char("x"), Char("q"), Backspace, Esc} : mirrors(key)
             /\ on(Enter).input = todo(Enter).input
             /\ on(Enter).list_title = todo(Enter).todo_title
             /\ on(Enter).state = CreateList(None)
        ELSE /\ mirrors(Char("t"))
             /\ on(Char("t")).input = list_title
             /\ \A key \in {Esc, Char("q")} :
                  on(key).state = List(None) /\ on(key).db = db
             /\ on(Char("s")).db.lists =
                  Append(db.lists, [id |-> NextId(db.lists), title |-> list_title])
             /\ on(Char("s")).db.todos = db.todos
             /\ on(Char("s")).list_title = <<>>
             /\ on(Char("s")).state = List(None)

\* the field after f in the form; none after DueDate
FieldAfter(f) ==
    CASE f = "Title" -> Some("Description")
      [] f = "Description" -> Some("DueDate")
      [] f = "DueDate" -> None

\* C18: in EditingTodo with an active field, enter goes from Title to
\* Description, from Description to DueDate and from DueDate to the menu,
\* with the same editId; it commits the buffer to the staged value of the
\* field it leaves (for DueDate: today + N, or none when the buffer is no
\* number), leaves the other staged values and clears the buffer.
C18_EnterAdvances ==
    (run = "running" /\ mode.tag = "Create" /\ IsSome(mode.field)) =>
    LET f == Unwrap(mode.field)
        s2 == Step(Cur, Enter, 0, 0, 0, "debug")
    IN  /\ ~s2.panic /\ ~s2.quit
        /\ s2.state = Create(FieldAfter(f), mode.idx)
        /\ s2.input = <<>>
        /\ s2.todo_title = IF f = "Title" THEN input ELSE todo_title
        /\ s2.todo_description =
              IF f = "Description" THEN input ELSE todo_description
        /\ s2.todo_due_date =
              IF f = "DueDate"
              THEN IF IsSome(ParseU64(input))
                   THEN Some(Today + Unwrap(ParseU64(input))) ELSE None
              ELSE todo_due_date
        /\ s2.db = db

\* C19: esc while a field of the todo form is edited clears the buffer and
\* goes to the menu EditingTodo(None, editId) with the same editId; the
\* staged title, description and due date, both cursors, the focus and the
\* store are unchanged.
C19_EscLeavesField ==
    (run = "running" /\ mode.tag = "Create" /\ IsSome(mode.field)) =>
    LET s2 == Step(Cur, Esc, 0, 0, 0, "debug")
    IN  /\ ~s2.panic /\ ~s2.quit
        /\ s2.input = <<>>
        /\ s2.state = Create(None, mode.idx)
        /\ s2.todo_title = todo_title
        /\ s2.todo_description = todo_description
        /\ s2.todo_due_date = todo_due_date
        /\ s2.lists_sel = lists_sel
        /\ s2.todo_sel = todo_sel
        /\ s2.selecting_list = selecting_list
        /\ s2.db = db

\* the session pressed j, N, '0', esc
C19_Witness ==
    /\ run = "running"
    /\ nkeys = 4
    /\ mode = Create(None, None)
    /\ input = <<>>
    /\ todo_title = <<>> /\ todo_description = <<>> /\ todo_due_date = None
    /\ IsSome(lists_sel)

\* the keys tried in every state: those with a handler somewhere, a
\* character without one, and a key that is no character
C20Keys ==
    { Char(c) : c \in {"q", "v", "E", "N", "L", "D", "j", "k", "h", "l", " ",
                       "d", "t", "s", "x", "0"} }
    \cup {Esc, Enter, Backspace, <<"Tab">>}

C21_DetailView ==
    (run = "running" /\ mode.tag = "List") =>
    LET sv == HandleKey(NewStep(Cur), Char("v"), 0, "debug")
    IN  /\ sv.state = IF IsSome(mode.idx) THEN List(None)
                      ELSE IF IsSome(todo_sel) THEN List(todo_sel)
                      ELSE mode
        /\ sv = [NewStep(Cur) EXCEPT !.state = sv.state]
        /\ \A key \in {Char("j"), Char("k")}, bld \in Builds :
             HandleKey(NewStep(Cur), key, 0, bld).state = mode

\* the detail was opened on the first todo and the cursor then moved on:
\* j, l, v, j on a list of two todos
C21_Witness ==
    /\ run = "running"
    /\ mode = List(Some(0))
    /\ todo_sel = Some(1)
    /\ Len(todos) = 2

PosOf(seq, id) == CHOOSE i \in 1..Len(seq) : seq[i].id = id

\* the todos fetched for the selected list, in the order of the store
SelectedFetched ==
    Unwrap(fetch_todos(db, Unwrap(At(lists, Unwrap(lists_sel)).id), 0))

\* the statement as the specification words it: two completed todos are
\* displayed in the order of the store whatever their due dates are
C23_CompletedInStoreOrder ==
    (run = "running" /\ mode.tag = "List" /\ IsSome(lists_sel)) =>
        \A p, q \in 1..Len(todos) :
            (p < q /\ todos[p].completed /\ todos[q].completed) =>
                PosOf(SelectedFetched, todos[p].id) <
                PosOf(SelectedFetched, todos[q].id)

\* C23: among the completed todos of the displayed list those with a due
\* date come first, in ascending order of the date, then those without one;
\* only two completed todos with the same due date, or both without one,
\* appear in the order of the store.
C23_CompletedOrder ==
    (run = "running" /\ mode.tag = "List" /\ IsSome(lists_sel)) =>
        \A p, q \in 1..Len(todos) :
            (p < q /\ todos[p].completed /\ todos[q].completed) =>
                \/ IsSome(todos[p].due_date) /\ ~IsSome(todos[q].due_date)
                \/ /\ IsSome(todos[p].due_date) /\ IsSome(todos[q].due_date)
                   /\ Unwrap(todos[p].due_date) < Unwrap(todos[q].due_date)
                \/ /\ todos[p].due_date = todos[q].due_date
                   /\ PosOf(SelectedFetched, todos[p].id) <
                      PosOf(SelectedFetched, todos[q].id)

\* two completed todos stored as (no due date), (due +5), (due +1) are
\* displayed as +1, +5, no due date
C23_Witness ==
    /\ run = "running" /\ mode.tag = "List" /\ IsSome(lists_sel)
    /\ MapSeq(db.todos, LAMBDA r : <<r.due_date, r.completed>>) =
         << <<None, TRUE>>, <<Some(DateText(Today + 5)), TRUE>>,
            <<Some(DateText(Today + 1)), TRUE>> >>
    /\ MapSeq(todos, LAMBDA t : t.id) = <<Some(3), Some(2), Some(1)>>

\* C24: in every reachable state with the focus on the lists pane the todos
\* cursor is unset and, in Browsing, the detail index is unset.
C24_FocusOnListsHasNoTodoSelected ==
    selecting_list =>
        /\ todo_sel = None
        /\ mode.tag = "List" => mode.idx = None

\* the focus is back on the lists pane after a todo was toggled on the todos
\* pane (j, l, space, h)
C24_Witness ==
    /\ run = "running" /\ selecting_list /\ mode = List(None)
    /\ todo_sel = None /\ nkeys = 4
    /\ \E k \in 1..Len(db.todos) : db.todos[k].completed

\* C25: in every reachable state that is Browsing or the menu of the todo
\* form or of the list form (no field active) the input buffer is empty.
C25_InputEmptyOutsideFields ==
    (mode.tag = "List" \/ mode.field = None) => input = <<>>

\* the menu of the todo form after a title was typed into the buffer and
\* committed by enter
C25_Witness ==
    /\ run = "running" /\ mode = Create(None, None)
    /\ todo_title = <<"0">> /\ input = <<>>

\* C26: in every reachable state of the todo form: when it creates a todo
\* the lists cursor is set and indexes the lists held by the loop; when it
\* edits todo i, i is below the length of the todos held by the loop; hence
\* s at the menu of the form does not abort.
C26_FormIndexesSnapshots ==
    (run = "running" /\ mode.tag = "Create") =>
        /\ IF mode.idx = None
           THEN IsSome(lists_sel) /\ InBounds(Unwrap(lists_sel), lists)
           ELSE InBounds(Unwrap(mode.idx), todos)
        /\ mode.field = None =>
             ~HandleKey(NewStep(Cur), Char("s"), 0, "debug").panic

\* the menu of the form opened by E on the second of two todos
C26_Witness ==
    /\ run = "running" /\ mode = Create(None, Some(1))
    /\ Len(todos) = 2 /\ todo_sel = Some(1)

\* the staged values of the todo form
Staged(s) == <<s.todo_title, s.todo_description, s.todo_due_date>>

\* C27: esc and q at the menu of the todo form leave the staged title,
\* description and due date as they are and return to Browsing; N opens the
\* form without resetting them and L opens the list form without resetting
\* the staged list title; s at the menu of the list form leaves the staged
\* list title as it is, while s at the menu of the todo form empties the
\* staged values.
C27_StagedValuesSurvive ==
    run = "running" =>
    LET c == NewStep(Cur)
        after(key) == HandleKey(c, key, 0, "debug")
    IN  /\ (mode.tag = "Create" /\ mode.field = None) =>
              /\ \A key \in {Esc, Char("q")} :
                    /\ Staged(after(key)) = Staged(c)
                    /\ after(key) = [c EXCEPT !.state = List(None)]
              /\ Staged(after(Char("s"))) = <<<<>>, <<>>, None>>
        /\ mode.tag = "List" =>
              /\ Staged(after(Char("N"))) = Staged(c)
              /\ after(Char("N")).state =
                    IF IsSome(lists_sel) THEN Create(Some("Title"), None)
                    ELSE mode
              /\ after(Char("L")).list_title = list_title
        /\ (mode.tag = "CreateList" /\ mode.field = None) =>
              after(Char("s")).list_title = list_title

\* Browsing after a form with a staged title was abandoned at its menu
\* (j, N, 0, enter, esc, esc): the title is still staged, nothing was saved
C27_Witness ==
    /\ run = "running" /\ mode = List(None)
    /\ todo_title = <<"0">> /\ input = <<>> /\ db.todos = <<>>
    /\ lists_sel = Some(0)

\* C28: in Browsing with the focus on the todos and the cursor on a todo,
\* space and l change in the store only completed and completed_date of
\* that todo, and leave the todos cursor, the lists cursor, the focus and
\* the mode as they are, through the next frame too; the todo the cursor
\* designates after the re-sort is the one then at that position.
C28_ToggleFrame ==
    (/\ run = "running" /\ mode.tag = "List" /\ ~selecting_list
     /\ IsSome(todo_sel) /\ InBounds(Unwrap(todo_sel), todos)) =>
    \A key \in {Char(" "), Char("l")} :
        LET t  == At(todos, Unwrap(todo_sel))
            s1 == HandleKey(NewStep(Cur), key, 0, "debug")
            s2 == Step(Cur, key, 0, 0, 0, "debug")
        IN  /\ ~s1.panic /\ s1.op = "toggle_todo_completion"
            /\ s1.db.lists = db.lists
            /\ Len(s1.db.todos) = Len(db.todos)
            /\ \A k \in 1..Len(db.todos) :
                 IF Some(db.todos[k].id) = t.id
                 THEN /\ s1.db.todos[k].completed = ~db.todos[k].completed
                      /\ [s1.db.todos[k] EXCEPT
                            !.completed = db.todos[k].completed,
                            !.completed_date = db.todos[k].completed_date]
                         = db.todos[k]
                 ELSE s1.db.todos[k] = db.todos[k]
            /\ \A s \in {s1, s2} :
                 /\ s.todo_sel = todo_sel
                 /\ s.lists_sel = lists_sel
                 /\ s.selecting_list = selecting_list
                 /\ s.state = mode
            /\ s2.db = s1.db
            /\ s2.todos = get_todos(s1.db,
                   Unwrap(At(lists, Unwrap(lists_sel)).id), 0)

\* the first of two open todos was toggled (j, l, space): it is displayed
\* last and the cursor, still 0, designates the other todo
C28_Witness ==
    /\ run = "running" /\ nkeys = 3
    /\ last.op = "toggle_todo_completion" /\ last.hf = 0
    /\ todo_sel = Some(0) /\ Len(todos) = 2
    /\ ~todos[1].completed /\ todos[2].completed
    /\ todos[2].id = Some(1)

\* C29: a Description or DueDate field reached by enter starts with an empty
\* buffer, and d at the menu opens Description with the staged description
\* in the buffer; so from Browsing with a todo selected the keys E, enter,
\* enter, enter, s keep the title of that todo in the store, set its
\* description to the empty text and its due date to none, and change no
\* other todo.
C29_EnterThroughFormBlanks ==
    /\ (run = "running" /\ mode.tag = "Create" /\ IsSome(mode.field)) =>
          LET s1 == HandleKey(NewStep(Cur), Enter, 0, "debug")
          IN  (~s1.panic /\ IsSome(s1.state.field)) =>
                 /\ s1.state.field \in {Some("Description"), Some("DueDate")}
                 /\ s1.input = <<>>
    /\ (run = "running" /\ mode.tag = "Create" /\ mode.field = None) =>
          LET s1 == HandleKey(NewStep(Cur), Char("d"), 0, "debug")
          IN  /\ s1.state = Create(Some("Description"), mode.idx)
              /\ s1.input = todo_description
    /\ (/\ run = "running" /\ mode.tag = "List"
        /\ IsSome(lists_sel) /\ IsSome(todo_sel)
        /\ InBounds(Unwrap(todo_sel), todos)) =>
          LET t == At(todos, Unwrap(todo_sel))
              s5 == Presses(Cur, <<Char("E"), Enter, Enter, Enter, Char("s")>>,
                            "debug")
          IN  /\ ~s5.panic /\ s5.op = "update_todo"
              /\ Len(s5.db.todos) = Len(db.todos)
              /\ \A k \in 1..Len(db.todos) :
                   IF Some(db.todos[k].id) = t.id
                   THEN /\ s5.db.todos[k].id = db.todos[k].id
                        /\ s5.db.todos[k].title = db.todos[k].title
                        /\ s5.db.todos[k].description = Some(<<>>)
                        /\ s5.db.todos[k].due_date = None
                   ELSE s5.db.todos[k] = db.todos[k]

\* the menu of the form after E, enter, enter, enter on a todo stored with
\* description "d" and a due date: the title is staged as stored, the
\* description is staged empty and the due date none
C29_Witness ==
    /\ run = "running" /\ mode = Create(None, Some(0)) /\ nkeys = 6
    /\ Len(db.todos) = 1
    /\ db.todos[1].description = Some(<<"d">>)
    /\ db.todos[1].due_date = Some(DateText(Today + 1))
    /\ todo_title = db.todos[1].title
    /\ todo_description = <<>> /\ todo_due_date = None /\ input = <<>>

\* the ids of the lists in the store
ListIds(d) == { d.lists[i].id : i \in 1..Len(d.lists) }

\* C30: in every state of a session whose store calls succeed, every todo in
\* the store has the list_id of a list in the store.
C30_TodosBelongToLists ==
    TodoListIds(db) \subseteq ListIds(db)

\* the session created a todo titled "0" in the second of two lists
\* (j, j, N, 0, enter, esc, s)
C30_Witness ==
    /\ run = "running" /\ last.op = "add_todo" /\ last.hf = 0
    /\ Len(db.lists) = 2 /\ Len(db.todos) > 0
    /\ db.todos[Len(db.todos)].title = <<"0">>
    /\ db.todos[Len(db.todos)].list_id = db.lists[2].id

====
